---- MODULE Spec2Model ----
(***************************************************************************)
(* Flappy Bird (src/flappybird.py): the tick loop of Game.run_game, the    *)
(* player's movement stack, the obstacle stream, the collision and score   *)
(* evaluation and Application.check_restart, as a state machine.           *)
(*                                                                         *)
(* Canvas coordinates are floats in the program.  Every value the program  *)
(* computes is a multiple of 0.5 (5 * 0.1 = 0.5 and -5 * 1.6 = -8.0 are    *)
(* exact in binary floating point, and sums of multiples of 0.5 in this    *)
(* range are exact), so the model keeps every coordinate and velocity as   *)
(* an integer number of tenths of a pixel.                                 *)
(***************************************************************************)
EXTENDS Integers, Sequences, FiniteSets, TLC

(* ---------------------------------------------------------------- units *)

\* Tenths per pixel: the denominator of the decimal constants 0.1 and 1.6.
Scale == 10

Px(n) == n * Scale

(* ------------------------------------------------------ program constants *)

BIRD_WIDTH == 40
BIRD_HEIGHT == 40
ACCELERATION == 5
\* _JUMP_TIME = 1.6 and _FALL_TIME = 0.1, in tenths.
JUMP_TIME == 16
FALL_TIME == 1

OBSTACLE_WIDTH == 70
OBSTACLE_GAP == 150
MOVEMENT_SPEED == -2

SCREEN_WIDTH == 360
SCREEN_HEIGHT == 640

DISTANCE_BETWEEN_OBSTACLES == 80
MIN_RANGE_OF_PIPES == 200
MAX_RANGE_OF_PIPES == 600

POINT_WORTH == 1

\* Player(self._canvas, 40, 300, 'space', 1)
PLAYER_X == 40
PLAYER_Y == 300
CONTROL_KEY == "space"
\* event.num is the integer 1 for the first mouse button and the string
\* '??' for a key event; the model writes both as strings.
CONTROL_BUTTON == "1"

\* Width of the default outline of a canvas rectangle (1.0 pixel).
OUTLINE_WIDTH == 1

(* ----------------------------------------------------------------- bounds *)

\* Ticks of one Game instance the model follows.
MaxTicks == 350
\* Game instances the application constructs; the last one is never started.
MaxGames == 3
\* Ticks of a replaced Game's still-scheduled loop whose effect on that
\* instance the model follows; afterwards only its check_restart calls are.
MaxZombieTicks == 2
\* The piloting input source delivers a boost request only on every
\* InputPeriod-th tick of the session, and only when none is pending.
InputPeriod == 12
\* The bursting input source delivers requests only before tick BurstWindow
\* of a session, up to MaxPending queued requests, and sessions are followed
\* for BurstTicks ticks.
BurstWindow == 2
MaxPending == 3
BurstTicks == 45
\* Ticks over which two input histories are compared.
TrajectoryLen == 4
\* Consecutive fall ticks from the start state that are compared with 0.5 * k.
FallLen == 6

\* The input source that falls silent delivers no event to a session from
\* its tick QuietAfter on; its sessions are followed for QuietTicks ticks.
QuietAfter == 100
QuietTicks == 200

\* The early variants are followed for EarlyTicks ticks, with at most
\* EarlyPending boost requests queued by their input source.
EarlyTicks == 70
EarlyPending == 2

\* Values random.randrange(200, 600) is drawn from in the model: the least
\* and the greatest it can return.
GapChoices == {MIN_RANGE_OF_PIPES, MAX_RANGE_OF_PIPES - 1}

\* Input events: space and another key, the first and the third button.
Events ==
  { [keysym |-> "space", num |-> "??"], [keysym |-> "a", num |-> "??"],
    [keysym |-> "??", num |-> "1"], [keysym |-> "??", num |-> "3"] }

(* ------------------------------------------------------------------ state *)

VARIABLES
  games,        \* every Game constructed so far, in construction order
  game_object,  \* Application.game_object: index into games
  screen,       \* "menu" or "game": which of the two frames is packed
  score_label,  \* Application._score: <<>> for the empty text, else <<score>>
  loops,        \* the Games whose run_game is scheduled with window.after
  due           \* the scheduled loops that have not fired in this period

vars == <<games, game_object, screen, score_label, loops, due>>

(* ------------------------------------------------------------ coordinates *)

\* Indices into a coords() list [x1, y1, x2, y2] (0-based in the program).
LEFT_X == 0
TOP_Y == 1
RIGHT_X == 2
BOTTOM_Y == 3

At(coords, i) == coords[i + 1]

\* canvas.coords of a rectangle: the corners, lower values first.
Min(a, b) == IF a <= b THEN a ELSE b
Max(a, b) == IF a >= b THEN a ELSE b
Coords(x1, y1, x2, y2) == <<Min(x1, x2), Min(y1, y2), Max(x1, x2), Max(y1, y2)>>

(* ----------------------------------------------------------------- Player *)

\* Player.__init__: the rectangle at (x, y), velocity 0, empty stack.
\* applied records which of _fall and _flap the last move() ran.
NewPlayer ==
  [ y |-> Px(PLAYER_Y), vel |-> 0, stack |-> <<>>, applied |-> <<>> ]

\* Player.get_coordinates
get_coordinates(p) ==
  Coords(Px(PLAYER_X), p.y, Px(PLAYER_X + BIRD_HEIGHT), p.y + Px(BIRD_WIDTH))

\* _fall moving by the old velocity before it accelerates.
Fall_MoveFirst(p) ==
  LET v == p.vel + ACCELERATION * FALL_TIME
  IN  [p EXCEPT !.vel = v, !.y = p.y + p.vel,
                !.applied = Append(p.applied, "fall")]

\* Player._fall
Fall(p) ==
  LET v == p.vel + ACCELERATION * FALL_TIME
  IN  [p EXCEPT !.vel = v, !.y = p.y + v,
                !.applied = Append(p.applied, "fall")]

\* list.remove("True"): drops the first occurrence.
RemoveTrue(st) == Tail(st)

\* _flap with -= in place of =.
Flap_Accumulate(p) ==
  LET v == p.vel - ACCELERATION * JUMP_TIME
  IN  [p EXCEPT !.vel = v, !.y = p.y + v, !.stack = RemoveTrue(p.stack),
                !.applied = Append(p.applied, "flap")]

\* Player._flap
Flap(p) ==
  LET v == (-ACCELERATION) * JUMP_TIME
  IN  [p EXCEPT !.vel = v, !.y = p.y + v, !.stack = RemoveTrue(p.stack),
                !.applied = Append(p.applied, "flap")]

\* list.pop(): drops the last element.
Pop(st) == SubSeq(st, 1, Len(st) - 1)

\* Player.move: three independent if statements, evaluated in order.
move(p) ==
  LET p0 == [p EXCEPT !.applied = <<>>]
      p1 == IF Len(p0.stack) = 0 THEN Fall(p0) ELSE p0
      p2 == IF Len(p1.stack) = 1 THEN Flap(p1) ELSE p1
      p3 == IF Len(p2.stack) > 1
              THEN [p2 EXCEPT !.stack = Pop(p2.stack)] ELSE p2
  IN  p3

\* event_entered taking every key for the control key.
event_entered_AnyKey(p, event) ==
  IF event.keysym # "??" \/ event.num = CONTROL_BUTTON
    THEN [p EXCEPT !.stack = Append(p.stack, "True")]
    ELSE p

\* Player.event_entered
event_entered(p, event) ==
  IF event.keysym = CONTROL_KEY \/ event.num = CONTROL_BUTTON
    THEN [p EXCEPT !.stack = Append(p.stack, "True")]
    ELSE p

(* --------------------------------------------------------------- Obstacle *)

\* Obstacle.__init__ with the barrier's width in place of the gap.
NewObstacle_NarrowGap(x, y, id) ==
  [ id |-> id, age |-> 0,
    top_obstacle_position |->
      Coords(Px(x), Px(y - OBSTACLE_WIDTH), Px(x + OBSTACLE_WIDTH),
             Px(y - SCREEN_HEIGHT)),
    bottom_obstacle_position |->
      Coords(Px(x), Px(y), Px(x + OBSTACLE_WIDTH), Px(y + SCREEN_HEIGHT)),
    halfway |-> FALSE,
    off_screen |-> FALSE ]

\* Obstacle.__init__: id stands for the identity of the Python object, and
\* age counts the move_obstacle calls on it (bookkeeping of the model).
NewObstacle(x, y, id) ==
  [ id |-> id, age |-> 0,
    top_obstacle_position |->
      Coords(Px(x), Px(y - OBSTACLE_GAP), Px(x + OBSTACLE_WIDTH),
             Px(y - SCREEN_HEIGHT)),
    bottom_obstacle_position |->
      Coords(Px(x), Px(y), Px(x + OBSTACLE_WIDTH), Px(y + SCREEN_HEIGHT)),
    halfway |-> FALSE,
    off_screen |-> FALSE ]

\* canvas.move(item, dx, 0)
MoveX(c, dx) == <<c[1] + dx, c[2], c[3] + dx, c[4]>>

\* _check_obstacle_positions testing the right edge against the midpoint.
check_obstacle_positions_RightEdge(o) ==
  [o EXCEPT
     !.off_screen =
        IF At(o.bottom_obstacle_position, RIGHT_X) <= 0 THEN TRUE ELSE @,
     !.halfway =
        (2 * At(o.bottom_obstacle_position, RIGHT_X) = Px(SCREEN_WIDTH))]

\* _check_obstacle_positions with <= in place of == at the midpoint.
check_obstacle_positions_AtOrPastHalf(o) ==
  [o EXCEPT
     !.off_screen =
        IF At(o.bottom_obstacle_position, RIGHT_X) <= 0 THEN TRUE ELSE @,
     !.halfway =
        (2 * At(o.bottom_obstacle_position, LEFT_X) <= Px(SCREEN_WIDTH))]

\* _check_obstacle_positions with < in place of <= at the left edge.
check_obstacle_positions_StrictOff(o) ==
  [o EXCEPT
     !.off_screen =
        IF At(o.bottom_obstacle_position, RIGHT_X) < 0 THEN TRUE ELSE @,
     !.halfway =
        (2 * At(o.bottom_obstacle_position, LEFT_X) = Px(SCREEN_WIDTH))]

\* Obstacle._check_obstacle_positions
check_obstacle_positions(o) ==
  [o EXCEPT
     !.off_screen =
        IF At(o.bottom_obstacle_position, RIGHT_X) <= 0 THEN TRUE ELSE @,
     !.halfway =
        (2 * At(o.bottom_obstacle_position, LEFT_X) = Px(SCREEN_WIDTH))]

\* move_obstacle moving the bottom rectangle only.
move_obstacle_BottomOnly(o) ==
  check_obstacle_positions(
    [o EXCEPT
       !.age = @ + 1,
       !.bottom_obstacle_position = MoveX(@, Px(MOVEMENT_SPEED))])

\* Obstacle.move_obstacle
move_obstacle(o) ==
  check_obstacle_positions(
    [o EXCEPT
       !.age = @ + 1,
       !.top_obstacle_position = MoveX(@, Px(MOVEMENT_SPEED)),
       !.bottom_obstacle_position = MoveX(@, Px(MOVEMENT_SPEED))])

(* ------------------------------------------------------------- Scoreboard *)

\* increase_score counting a point twice.
increase_score_Twice(sb) == [sb EXCEPT !.score = @ + 2 * POINT_WORTH]

\* Scoreboard.increase_score
increase_score(sb) == [sb EXCEPT !.score = @ + POINT_WORTH]

(* ------------------------------------------------------------------- Game *)

\* Game.__init__.  ticks, spawned, zticks and tracked are bookkeeping of the
\* model: run_game calls so far, Obstacle objects constructed so far, ticks
\* run since the instance was replaced, and whether the model still follows
\* the instance; crashed is set when run_game ends in an uncaught exception.
NewGame ==
  [ player |-> NewPlayer,
    obstacles |-> <<>>,
    scoreboard |-> [score |-> 0],
    score |-> 0,
    ticks |-> 0, spawned |-> 0, zticks |-> 0,
    tracked |-> TRUE, crashed |-> FALSE ]

\* The sequence l without its i-th element (list.remove of the object at i).
RemoveAt(l, i) == SubSeq(l, 1, i - 1) \o SubSeq(l, i + 1, Len(l))

\* The second loop of _manage_pipes without the removal of off-screen pairs.
RECURSIVE PipesLoop_NoRemove(_, _, _)
PipesLoop_NoRemove(l, n, i) ==
  IF i > Len(l) THEN { [obstacles |-> l, spawned |-> n] }
  ELSE
    LET o == l[i]
        appended ==
          IF o.halfway
            THEN { [l |-> Append(l, NewObstacle(
                             SCREEN_WIDTH + DISTANCE_BETWEEN_OBSTACLES,
                             y, n + 1)),
                    n |-> n + 1] : y \in GapChoices }
            ELSE { [l |-> l, n |-> n] }
    IN  UNION { PipesLoop_NoRemove(a.l, a.n, i + 1) : a \in appended }

\* The second loop of _manage_pipes spawning at the right edge of the screen.
RECURSIVE PipesLoop_SpawnAtEdge(_, _, _)
PipesLoop_SpawnAtEdge(l, n, i) ==
  IF i > Len(l) THEN { [obstacles |-> l, spawned |-> n] }
  ELSE
    LET o == l[i]
        appended ==
          IF o.halfway
            THEN { [l |-> Append(l, NewObstacle(SCREEN_WIDTH, y, n + 1)),
                    n |-> n + 1] : y \in GapChoices }
            ELSE { [l |-> l, n |-> n] }
    IN  UNION { PipesLoop_SpawnAtEdge(
                  IF o.off_screen THEN RemoveAt(a.l, i) ELSE a.l,
                  a.n, i + 1) : a \in appended }

\* The second loop of _manage_pipes with insert(0, ...) in place of append:
\* the pair at index i moves to i + 1 when a pair is put in front of it.
RECURSIVE PipesLoop_Prepend(_, _, _)
PipesLoop_Prepend(l, n, i) ==
  IF i > Len(l) THEN { [obstacles |-> l, spawned |-> n] }
  ELSE
    LET o == l[i]
        inserted ==
          IF o.halfway
            THEN { [l |-> <<NewObstacle(
                             SCREEN_WIDTH + DISTANCE_BETWEEN_OBSTACLES,
                             y, n + 1)>> \o l,
                    n |-> n + 1, i |-> i + 1] : y \in GapChoices }
            ELSE { [l |-> l, n |-> n, i |-> i] }
    IN  UNION { PipesLoop_Prepend(
                  IF o.off_screen THEN RemoveAt(a.l, a.i) ELSE a.l,
                  a.n, a.i + 1) : a \in inserted }

\* The second loop of Game._manage_pipes, from list index i (1-based) on: a
\* Python for loop over a list that the body appends to and removes from
\* visits index 0, 1, 2, ... of the list as it is at each step.  The result
\* is the set of outcomes over the values random.randrange can return.
RECURSIVE PipesLoop(_, _, _)
PipesLoop(l, n, i) ==
  IF i > Len(l) THEN { [obstacles |-> l, spawned |-> n] }
  ELSE
    LET o == l[i]
        appended ==
          IF o.halfway
            THEN { [l |-> Append(l, NewObstacle(
                             SCREEN_WIDTH + DISTANCE_BETWEEN_OBSTACLES,
                             y, n + 1)),
                    n |-> n + 1] : y \in GapChoices }
            ELSE { [l |-> l, n |-> n] }
    IN  UNION { PipesLoop(IF o.off_screen THEN RemoveAt(a.l, i) ELSE a.l,
                          a.n, i + 1) : a \in appended }

\* _manage_pipes without the spawn into an empty list.
manage_pipes_NoFirstSpawn(obstacles, spawned) ==
  PipesLoop([i \in 1..Len(obstacles) |-> move_obstacle(obstacles[i])],
            spawned, 1)

\* Game._manage_pipes: the possible (obstacles, spawned) after the call.
manage_pipes(obstacles, spawned) ==
  LET moved == [i \in 1..Len(obstacles) |-> move_obstacle(obstacles[i])]
  IN  IF Len(moved) = 0
        THEN UNION { PipesLoop(<<NewObstacle(SCREEN_WIDTH, y, spawned + 1)>>,
                               spawned + 1, 1) : y \in GapChoices }
        ELSE PipesLoop(moved, spawned, 1)

\* Overlapping with the vertical axis left out.
Overlapping_XOnly(area, item) ==
  LET half == Px(OUTLINE_WIDTH) \div 2
  IN  ~ \/ area[3] <= item[1] - half
        \/ area[1] >= item[3] + half

\* canvas.find_overlapping(*area) holds the item with corners item: a filled
\* rectangle reaches half its outline width beyond its corners, and misses
\* the area only when the area lies wholly to one side of it.
Overlapping(area, item) ==
  LET half == Px(OUTLINE_WIDTH) \div 2
  IN  ~ \/ area[3] <= item[1] - half
        \/ area[1] >= item[3] + half
        \/ area[4] <= item[2] - half
        \/ area[2] >= item[4] + half

\* manage_collisions with the boundary branch left out.
manage_collisions_NoBoundary(g) ==
  IF Len(g.obstacles) = 0 THEN "False"
  ELSE
    LET obstacle == g.obstacles[1]
        coords == get_coordinates(g.player)
    IN  IF \/ Overlapping(obstacle.bottom_obstacle_position, coords)
           \/ Overlapping(obstacle.top_obstacle_position, coords)
          THEN "True"
        ELSE "None"

\* manage_collisions testing the bottom barrier only.
manage_collisions_BottomOnly(g) ==
  IF Len(g.obstacles) = 0 THEN "False"
  ELSE
    LET obstacle == g.obstacles[1]
        coords == get_coordinates(g.player)
    IN  IF Overlapping(obstacle.bottom_obstacle_position, coords)
          THEN "True"
        ELSE IF \/ At(coords, BOTTOM_Y) >= Px(SCREEN_HEIGHT)
                \/ At(coords, TOP_Y) <= 0
          THEN "True"
        ELSE "None"

\* manage_collisions whose IndexError handler returns True.
manage_collisions_IndexErrorTrue(g) ==
  IF Len(g.obstacles) = 0 THEN "True"
  ELSE
    LET obstacle == g.obstacles[1]
        coords == get_coordinates(g.player)
    IN  IF \/ Overlapping(obstacle.bottom_obstacle_position, coords)
           \/ Overlapping(obstacle.top_obstacle_position, coords)
          THEN "True"
        ELSE IF \/ At(coords, BOTTOM_Y) >= Px(SCREEN_HEIGHT)
                \/ At(coords, TOP_Y) <= 0
          THEN "True"
        ELSE "None"

\* Game.manage_collisions: "True", "False" (the IndexError handler) or
\* "None" (the end of the function is reached without a return).
manage_collisions(g) ==
  IF Len(g.obstacles) = 0 THEN "False"
  ELSE
    LET obstacle == g.obstacles[1]
        coords == get_coordinates(g.player)
    IN  IF \/ Overlapping(obstacle.bottom_obstacle_position, coords)
           \/ Overlapping(obstacle.top_obstacle_position, coords)
          THEN "True"
        ELSE IF \/ At(coords, BOTTOM_Y) >= Px(SCREEN_HEIGHT)
                \/ At(coords, TOP_Y) <= 0
          THEN "True"
        ELSE "None"

\* The truth value Python's if gives a return value.
Truthy(r) == r = "True"

\* manage_collisions stopping the player it found in contact.
after_manage_collisions_Halt(g) ==
  IF Truthy(manage_collisions(g)) THEN [g EXCEPT !.player.vel = 0] ELSE g

\* The Game after a call of manage_collisions: the call reads _obstacles[0],
\* canvas.find_overlapping and canvas.coords, and assigns to nothing.
after_manage_collisions(g) == g

\* _manage_score without the assignment to Game.score.
manage_score_NoMirror(g) ==
  IF Len(g.obstacles) = 0 THEN [g EXCEPT !.crashed = TRUE]
  ELSE
    LET obstacle == g.obstacles[1]
    IN  IF At(get_coordinates(g.player), RIGHT_X)
             = At(obstacle.bottom_obstacle_position, RIGHT_X)
          THEN [g EXCEPT !.scoreboard = increase_score(g.scoreboard)]
          ELSE g

\* _manage_score with >= in place of ==.
manage_score_AtOrPast(g) ==
  IF Len(g.obstacles) = 0 THEN [g EXCEPT !.crashed = TRUE]
  ELSE
    LET obstacle == g.obstacles[1]
    IN  IF At(get_coordinates(g.player), RIGHT_X)
             >= At(obstacle.bottom_obstacle_position, RIGHT_X)
          THEN LET sb == increase_score(g.scoreboard)
               IN  [g EXCEPT !.scoreboard = sb, !.score = sb.score]
          ELSE g

\* Game._manage_score: self._obstacles[0] raises IndexError on an empty
\* list, which nothing catches.
manage_score(g) ==
  IF Len(g.obstacles) = 0 THEN [g EXCEPT !.crashed = TRUE]
  ELSE
    LET obstacle == g.obstacles[1]
    IN  IF At(get_coordinates(g.player), RIGHT_X)
             = At(obstacle.bottom_obstacle_position, RIGHT_X)
          THEN LET sb == increase_score(g.scoreboard)
               IN  [g EXCEPT !.scoreboard = sb, !.score = sb.score]
          ELSE g

\* Game.run_game up to its call of manage_collisions: the possible states of
\* the Game after move and _manage_pipes.
before_collisions(g) ==
  { [g EXCEPT !.player = move(g.player),
              !.obstacles = r.obstacles,
              !.spawned = r.spawned,
              !.ticks = @ + 1]
      : r \in manage_pipes(g.obstacles, g.spawned) }

\* Game.run_game up to the call of check_restart: the possible states of
\* the Game after move, _manage_pipes, manage_collisions (whose result is
\* dropped) and _manage_score.
run_game_body(g) ==
  { manage_score(after_manage_collisions(m)) : m \in before_collisions(g) }

(* ------------------------------------------------------------ Application *)

\* The application's fields as one record.
App == [ games |-> games, game_object |-> game_object, screen |-> screen,
         score_label |-> score_label ]

\* check_restart handing the old score to the new Game.
check_restart_KeepScore(a) ==
  IF Truthy(manage_collisions(a.games[a.game_object]))
    THEN [ games |-> Append(a.games,
                       [NewGame EXCEPT
                          !.score = a.games[a.game_object].score]),
           game_object |-> Len(a.games) + 1,
           screen |-> "menu",
           score_label |-> <<a.games[a.game_object].score>> ]
    ELSE a

\* check_restart configuring the label after game_object was replaced.
check_restart_NewGameScore(a) ==
  IF Truthy(manage_collisions(a.games[a.game_object]))
    THEN [ games |-> Append(a.games, NewGame),
           game_object |-> Len(a.games) + 1,
           screen |-> "menu",
           score_label |-> <<NewGame.score>> ]
    ELSE a

\* Application.check_restart
check_restart(a) ==
  LET a0 == [a EXCEPT !.games[a.game_object] = after_manage_collisions(@)]
  IN  IF Truthy(manage_collisions(a.games[a.game_object]))
        THEN [ games |-> Append(a0.games, NewGame),
               game_object |-> Len(a0.games) + 1,
               screen |-> "menu",
               score_label |-> <<a0.games[a0.game_object].score>> ]
        ELSE a0

\* What stands for a replaced Game the model follows no longer.
Untracked == [NewGame EXCEPT !.tracked = FALSE]

\* One call of run_game of games[g] from application state a: the possible
\* application states after it.  A replaced instance counts its ticks and
\* is followed for MaxZombieTicks of them.
run_game(a, g) ==
  IF ~ a.games[g].tracked THEN { check_restart(a) }
  ELSE
    { LET replaced == g < a.game_object
          b1 == [b EXCEPT !.zticks = IF replaced THEN @ + 1 ELSE @]
          a1 == [a EXCEPT !.games[g] = b1]
          a2 == IF b1.crashed THEN a1 ELSE check_restart(a1)
      IN  IF replaced /\ b1.zticks >= MaxZombieTicks
            THEN [a2 EXCEPT !.games[g] = Untracked]
            ELSE a2
      : b \in run_game_body(a.games[g]) }

Followed(gs, ls) == { h \in ls : gs[h].tracked }

SetApp(a) ==
  /\ games' = a.games
  /\ game_object' = a.game_object
  /\ screen' = a.screen
  /\ score_label' = a.score_label

(* ---------------------------------------------------------------- actions *)

\* The Tk constructor of Application: the menu is shown, the first Game is
\* constructed and waits for the Play button.
Init ==
  /\ games = <<NewGame>>
  /\ game_object = 1
  /\ screen = "menu"
  /\ score_label = <<>>
  /\ loops = {}
  /\ due = {}

\* A key or button event reaches the window: Game._event_entered of the
\* Game constructed last (each Game.__init__ rebinds <Key> and <Button>).
EventEntered(event) ==
  /\ games' = [games EXCEPT ![game_object].player = event_entered(@, event)]
  /\ UNCHANGED <<game_object, screen, score_label, loops, due>>

\* The Play button: Application._play_game, which runs the first run_game
\* of the waiting Game itself.
PlayGame ==
  /\ screen = "menu"
  /\ game_object < MaxGames
  /\ \E a \in run_game([App EXCEPT !.screen = "game"], game_object) :
       /\ SetApp(a)
       /\ loops' = IF a.games[game_object].crashed
                     THEN loops ELSE loops \cup {game_object}
       /\ due' = IF due = {} THEN Followed(a.games, loops') ELSE due

\* The timer set by window.after fires: run_game of games[g].  The loops
\* have the same period, so each fires once before any fires again.
Tick(g, cap) ==
  /\ g \in loops
  /\ \/ ~ games[g].tracked
     \/ /\ g \in due
        /\ g < game_object \/ games[g].ticks < cap
  /\ \E a \in run_game(App, g) :
       /\ SetApp(a)
       /\ loops' = IF a.games[g].crashed THEN loops \ {g} ELSE loops
       /\ due' = LET d == Followed(a.games, due \ {g})
                 IN  IF d = {} THEN Followed(a.games, loops') ELSE d

\* The piloting input source.
PilotWindow ==
  /\ games[game_object].ticks % InputPeriod = 0
  /\ Len(games[game_object].player.stack) = 0

\* The bursting input source.
BurstInput ==
  /\ games[game_object].ticks < BurstWindow
  /\ Len(games[game_object].player.stack) < MaxPending

Next ==
  \/ \E event \in Events : PilotWindow /\ EventEntered(event)
  \/ PlayGame
  \/ \E g \in 1..Len(games) : Tick(g, MaxTicks)

Spec == Init /\ [][Next]_vars

NextBurst ==
  \/ \E event \in Events : BurstInput /\ EventEntered(event)
  \/ PlayGame
  \/ \E g \in 1..Len(games) : Tick(g, BurstTicks)

SpecBurst == Init /\ [][NextBurst]_vars

\* The piloting input source, falling silent.
QuietInput ==
  /\ PilotWindow
  /\ games[game_object].ticks < QuietAfter

NextQuiet ==
  \/ \E event \in Events : QuietInput /\ EventEntered(event)
  \/ PlayGame
  \/ \E g \in 1..Len(games) : Tick(g, QuietTicks)

\* mainloop fires every timer set with window.after once it is due.
TimersFire == \A g \in 1..MaxGames : WF_vars(Tick(g, QuietTicks))

SpecQuiet == Init /\ [][NextQuiet]_vars /\ TimersFire

(* --------------------------------------------------------- early variants *)

\* 3.7scoring.py and 3.7 Collision.py: one Game, constructed and started at
\* module level, no menu and no restart.  games holds that one Game.

\* Where Game.__init__ of the early variants puts the Bird.
BIRD_Y == 40

\* Values random.randrange(150, 600) is drawn from: the least and greatest.
EarlyGapChoices == {150, 599}

\* Bird.__init__; floored records that _collisions has found the bird at
\* the floor (bookkeeping of the model).
NewBird ==
  [ y |-> Px(BIRD_Y), vel |-> 0, stack |-> <<>>, applied |-> <<>>,
    floored |-> FALSE ]

\* Bird.get_coords
Bird_get_coords(b) ==
  Coords(Px(PLAYER_X), b.y, Px(PLAYER_X + BIRD_HEIGHT), b.y + Px(BIRD_WIDTH))

\* Bird._fall
Bird_fall(b) ==
  LET v == b.vel + ACCELERATION * FALL_TIME
  IN  [b EXCEPT !.vel = v, !.y = b.y + v,
                !.applied = Append(b.applied, "fall")]

\* list.remove(v): the list without the first element equal to v.
RemoveFirst(st, v) ==
  LET i == CHOOSE k \in 1..Len(st) :
             st[k] = v /\ \A j \in 1..(k - 1) : st[j] # v
  IN  RemoveAt(st, i)

\* Bird._flap emptying the movement stack.
Bird_flap_ClearStack(b) ==
  LET v == -(ACCELERATION * JUMP_TIME)
  IN  [b EXCEPT !.vel = v, !.y = b.y + v, !.stack = <<>>,
                !.applied = Append(b.applied, "flap")]

\* Bird._flap
Bird_flap(b) ==
  LET v == -(ACCELERATION * JUMP_TIME)
  IN  [b EXCEPT !.vel = v, !.y = b.y + v,
                !.stack = RemoveFirst(b.stack, "True"),
                !.applied = Append(b.applied, "flap")]

\* Bird._collisions
Bird_collisions(b) ==
  IF At(Bird_get_coords(b), BOTTOM_Y) >= Px(SCREEN_HEIGHT)
    THEN [b EXCEPT !.stack = Append(b.stack, "L"), !.floored = TRUE]
    ELSE b

\* Bird.move
Bird_move(b) ==
  LET b0 == [b EXCEPT !.applied = <<>>]
      b1 == IF Len(b0.stack) = 0 THEN Bird_fall(b0) ELSE b0
      b2 == IF \E i \in 1..Len(b1.stack) : b1.stack[i] = "True"
              THEN Bird_flap(b1) ELSE b1
  IN  Bird_collisions(b2)

\* Bird.control_entered
control_entered(b) == [b EXCEPT !.stack = Append(b.stack, "True")]

\* Game.check_control_press
check_control_press(g, event) ==
  IF event.keysym = CONTROL_KEY
    THEN [g EXCEPT !.player = control_entered(g.player)] ELSE g

\* Game.__init__ of the early variants; variant tells the two files apart.
NewEarlyGame(variant) ==
  [ variant |-> variant, player |-> NewBird, obstacles |-> <<>>,
    score |-> 0, ticks |-> 0, spawned |-> 0 ]

\* The second loop of Game.manage_pipes of the early variants.
RECURSIVE EarlyPipesLoop(_, _, _)
EarlyPipesLoop(l, n, i) ==
  IF i > Len(l) THEN { [obstacles |-> l, spawned |-> n] }
  ELSE
    LET o == l[i]
        appended ==
          IF o.halfway
            THEN { [l |-> Append(l, NewObstacle(
                             SCREEN_WIDTH + DISTANCE_BETWEEN_OBSTACLES,
                             y, n + 1)),
                    n |-> n + 1] : y \in EarlyGapChoices }
            ELSE { [l |-> l, n |-> n] }
    IN  UNION { EarlyPipesLoop(IF o.off_screen THEN RemoveAt(a.l, i) ELSE a.l,
                               a.n, i + 1) : a \in appended }

\* Game.manage_pipes of the early variants.
early_manage_pipes(obstacles, spawned) ==
  LET moved == [i \in 1..Len(obstacles) |-> move_obstacle(obstacles[i])]
  IN  IF Len(moved) = 0
        THEN UNION { EarlyPipesLoop(
                       <<NewObstacle(SCREEN_WIDTH, y, spawned + 1)>>,
                       spawned + 1, 1) : y \in EarlyGapChoices }
        ELSE EarlyPipesLoop(moved, spawned, 1)

\* Game.manage_score of 3.7scoring.py; run_game of 3.7 Collision.py does not
\* call its counterpart.
early_manage_score(g) ==
  IF /\ g.variant = "scoring"
     /\ At(Bird_get_coords(g.player), RIGHT_X)
          = At(g.obstacles[1].bottom_obstacle_position, RIGHT_X)
    THEN [g EXCEPT !.score = @ + 1] ELSE g

\* Game.run_game of the early variants: player_obstacle_collisions only
\* prints.
early_run_game(g) ==
  { early_manage_score([g EXCEPT !.player = Bird_move(g.player),
                                 !.obstacles = r.obstacles,
                                 !.spawned = r.spawned,
                                 !.ticks = @ + 1])
      : r \in early_manage_pipes(g.obstacles, g.spawned) }

\* The module level of an early variant: the Game is constructed, and its
\* first run_game call is made before mainloop starts.
InitEarly ==
  /\ \E variant \in {"scoring", "collision"} :
       games \in { <<g>> : g \in early_run_game(NewEarlyGame(variant)) }
  /\ game_object = 1
  /\ screen = "game"
  /\ score_label = <<>>
  /\ loops = {1}
  /\ due = {1}

\* A key or button event reaches the window.
ControlPress(event) ==
  /\ games' = [games EXCEPT ![1] = check_control_press(@, event)]
  /\ UNCHANGED <<game_object, screen, score_label, loops, due>>

\* The timer set by window.after(14, self.run_game) fires.
EarlyTick ==
  /\ games[1].ticks < EarlyTicks
  /\ \E g \in early_run_game(games[1]) : games' = <<g>>
  /\ UNCHANGED <<game_object, screen, score_label, loops, due>>

\* The input source of the early variants.
EarlyInput ==
  /\ games[1].ticks % InputPeriod = 0
  /\ Cardinality({ i \in 1..Len(games[1].player.stack) :
                     games[1].player.stack[i] = "True" }) < EarlyPending

NextEarly ==
  \/ \E event \in Events : EarlyInput /\ ControlPress(event)
  \/ EarlyTick

SpecEarly == InitEarly /\ [][NextEarly]_vars

(* ------------------------------------------------------------- properties *)

Running(g) == g = game_object /\ screen = "game"

Replaced(g) == g < game_object

\* The space key pressed n times.
RECURSIVE Deliver(_, _)
Deliver(p, n) ==
  IF n = 0 THEN p
  ELSE Deliver(event_entered(p, [keysym |-> CONTROL_KEY, num |-> "??"]), n - 1)

\* The player after k calls of move.
RECURSIVE AfterTicks(_, _)
AfterTicks(p, k) == IF k = 0 THEN p ELSE AfterTicks(move(p), k - 1)

\* C1: from every state of the player of a running session, n >= 1 boost
\* events followed by k ticks leave the same position and velocity as one
\* boost event followed by k ticks, for every k.
C1_CoalescingIdempotence ==
  LET p == games[game_object].player
  IN  Running(game_object) =>
        \A n \in 1..MaxPending : \A k \in 1..TrajectoryLen :
          LET many == AfterTicks(Deliver(p, n), k)
              one == AfterTicks(Deliver(p, 1), k)
          IN  many.y = one.y /\ many.vel = one.vel

\* C2: the movement stack of every player holds at most one request.
C2_AtMostOnePending ==
  \A g \in 1..Len(games) : Len(games[g].player.stack) <= 1

\* C3: every call of Player.move runs exactly one of _fall and _flap.
C3_ExactlyOneRule ==
  \A g \in 1..Len(games) :
    (games[g].tracked /\ games[g].ticks > 0)
      => games[g].player.applied \in { <<"fall">>, <<"flap">> }

\* The player's bottom edge is at or below the floor, or its top edge at or
\* above the ceiling.
Boundary(g) ==
  LET c == get_coordinates(g.player)
  IN  c[4] >= Px(SCREEN_HEIGHT) \/ c[2] <= 0

\* Two rectangles whose projections intersect on both axes.
Intersects(r, q) ==
  /\ r[1] <= q[3] /\ q[1] <= r[3]
  /\ r[2] <= q[4] /\ q[2] <= r[4]

\* The player's rectangle intersects a barrier of the first pair.
HitsFirstPair(g) ==
  /\ Len(g.obstacles) > 0
  /\ \/ Intersects(get_coordinates(g.player),
                   g.obstacles[1].top_obstacle_position)
     \/ Intersects(get_coordinates(g.player),
                   g.obstacles[1].bottom_obstacle_position)

\* Game g has run a tick and the model follows it.
Ticked(g) == games[g].tracked /\ games[g].ticks > 0

\* Game g was replaced by the tick it ran last.
JustReplaced(g) == Replaced(g) /\ Ticked(g) /\ games[g].zticks = 0

\* C4: a Game whose player is at the floor or the ceiling at the end of a
\* tick is replaced by that tick: it is never the application's Game
\* afterwards, whatever its obstacle stream holds.
C4_BoundaryTerminates ==
  \A g \in 1..Len(games) :
    (Ticked(g) /\ Boundary(games[g])) => Replaced(g)

\* C4 witness: a session ended by the floor with no barrier touched.
C4_Witness ==
  \E g \in 1..Len(games) :
    /\ JustReplaced(g)
    /\ get_coordinates(games[g].player)[4] >= Px(SCREEN_HEIGHT)
    /\ ~ HitsFirstPair(games[g])

\* C5: a Game whose player intersects a barrier of its first pair at the
\* end of a tick is replaced by that tick.
C5_ObstacleTerminates ==
  \A g \in 1..Len(games) :
    (Ticked(g) /\ HitsFirstPair(games[g])) => Replaced(g)

\* C5 witness: a session ended by the top barrier, away from the ceiling
\* and the floor.
C5_Witness ==
  \E g \in 1..Len(games) :
    /\ JustReplaced(g)
    /\ ~ Boundary(games[g])
    /\ Intersects(get_coordinates(games[g].player),
                  games[g].obstacles[1].top_obstacle_position)

\* C6: a tick of the application's Game that ends with the player clear of
\* the first pair, the floor and the ceiling leaves that Game in place and
\* the game screen shown.
C6_NoSpuriousTermination ==
  [][ \A g \in 1..Len(games) :
        ( /\ g = game_object
          /\ games'[g].tracked
          /\ games'[g].ticks = games[g].ticks + 1
          /\ ~ Boundary(games'[g])
          /\ ~ HitsFirstPair(games'[g]) )
        => /\ game_object' = game_object
           /\ Len(games') = Len(games)
           /\ screen' = "game"
           /\ score_label' = score_label ]_vars

\* C6 witness: a running session with the player inside the gap of the
\* first pair, between its barriers.
C6_Witness ==
  \E g \in 1..Len(games) :
    /\ Running(g) /\ Ticked(g)
    /\ Len(games[g].obstacles) > 0
    /\ games[g].obstacles[1].bottom_obstacle_position[1]
         < get_coordinates(games[g].player)[1]
    /\ games[g].obstacles[1].bottom_obstacle_position[3]
         > get_coordinates(games[g].player)[3]
    /\ ~ HitsFirstPair(games[g])

\* What a tick can change of a Game.
GameState(g) ==
  <<g.player.y, g.player.vel, g.obstacles, g.score, g.scoreboard.score>>

\* C7: once a Game has been replaced, its player, its obstacle stream and
\* its score never change.
C7_TerminatedAbsorbing ==
  [][ \A g \in 1..Len(games) :
        (Replaced(g) /\ games[g].tracked /\ games'[g].tracked)
          => GameState(games'[g]) = GameState(games[g]) ]_vars

\* C8: a Game that replaced another and has not run yet has score 0, its
\* player at (40, 300) with velocity 0 and an empty obstacle stream.
C8_FreshSession ==
  \A g \in 2..Len(games) :
    (games[g].tracked /\ games[g].ticks = 0)
      => /\ games[g].score = 0
         /\ games[g].scoreboard.score = 0
         /\ get_coordinates(games[g].player)[1] = Px(PLAYER_X)
         /\ games[g].player.y = Px(PLAYER_Y)
         /\ games[g].player.vel = 0
         /\ games[g].obstacles = <<>>

\* C8 witness: the fresh Game replaced one that had scored, had moved and
\* held obstacles.
C8_Witness ==
  /\ game_object = 2
  /\ games[2].ticks = 0
  /\ games[1].tracked
  /\ games[1].score > 0
  /\ Len(games[1].obstacles) > 0
  /\ games[1].player.vel # 0

\* The pairs of Game g whose right edge has reached the player's right
\* edge: all constructed so far but those still to the right of it.
Passed(g) ==
  g.spawned
    - Cardinality({ i \in 1..Len(g.obstacles) :
                      g.obstacles[i].bottom_obstacle_position[3]
                        > get_coordinates(g.player)[3] })

\* C9: the score of a Game is the number of its pairs whose right edge has
\* reached the player's right edge: each such pair counts once, and the
\* score is 0 while there is none.
C9_ScoreCountsPasses ==
  \A g \in 1..Len(games) :
    games[g].tracked => games[g].score = Passed(games[g])

\* C9 witness: a running session that two pairs have passed.
C9_Witness ==
  \E g \in 1..Len(games) :
    Running(g) /\ games[g].score = 2 /\ Passed(games[g]) = 2

\* C10: the score of a Game is 0 before its first tick, and a step changes
\* it by 0 or by +1.
C10_ScoreMonotonic ==
  /\ [](\A g \in 1..Len(games) : games[g].ticks = 0 => games[g].score = 0)
  /\ [][ \A g \in 1..Len(games) :
           games'[g].tracked
             => games'[g].score - games[g].score \in {0, 1} ]_vars

\* C10 witness: a running session whose score has been raised.
C10_Witness ==
  \E g \in 1..Len(games) : Running(g) /\ games[g].score = 1

\* C11: a tick with no boost pending raises the velocity by 0.5 and moves
\* the player down by the new velocity; k fall ticks from the start state
\* give velocity 0.5 * k, and one gives y = 300.5.
C11_FallTick ==
  /\ [](\A k \in 0..FallLen :
          /\ 2 * AfterTicks(NewPlayer, k).vel = k * Px(1)
          /\ k = 1 => 2 * AfterTicks(NewPlayer, k).y = 2 * Px(PLAYER_Y) + Px(1))
  /\ [][ \A g \in 1..Len(games) :
           ( /\ games'[g].tracked
             /\ games'[g].ticks = games[g].ticks + 1
             /\ Len(games[g].player.stack) = 0 )
           => /\ 2 * (games'[g].player.vel - games[g].player.vel) = Px(1)
              /\ games'[g].player.y
                   = games[g].player.y + games'[g].player.vel ]_vars

\* C11 witness: a running session after three fall ticks from the start.
C11_Witness ==
  \E g \in 1..Len(games) :
    /\ Running(g) /\ games[g].ticks = 3
    /\ games[g].player.vel = 15
    /\ games[g].player.y = Px(PLAYER_Y) + 30

\* C12: a tick with exactly one boost pending sets the velocity to -8.0
\* whatever it was, moves the player up by 8.0 and clears the request; the
\* tick after it, with no new input, is a fall tick from -8.0.
C12_BoostTick ==
  /\ [](\A g \in 1..Len(games) :
          Len(games[g].player.stack) = 1
            => LET next == AfterTicks(games[g].player, 2)
               IN  /\ 2 * next.vel = (-15) * Px(1)
                   /\ next.applied = <<"fall">>)
  /\ [][ \A g \in 1..Len(games) :
           ( /\ games'[g].tracked
             /\ games'[g].ticks = games[g].ticks + 1
             /\ Len(games[g].player.stack) = 1 )
           => /\ games'[g].player.vel = (-8) * Px(1)
              /\ games'[g].player.y = games[g].player.y - 8 * Px(1)
              /\ games'[g].player.stack = <<>> ]_vars

\* C12 witness: a boost tick has just run in a session that was falling.
C12_Witness ==
  \E g \in 1..Len(games) :
    /\ Running(g) /\ games[g].ticks > InputPeriod
    /\ games[g].player.applied = <<"flap">>
    /\ games[g].player.vel = (-8) * Px(1)
    /\ games[g].player.y > Px(PLAYER_Y)

\* Left edge of a pair, and the gap parameter it was constructed with.
LeftEdge(o) == At(o.bottom_obstacle_position, LEFT_X)
GapY(o) == At(o.bottom_obstacle_position, TOP_Y)

\* Instances whose stream the model follows.
Tracked == { g \in 1..Len(games) : games[g].tracked }

\* Stream ticks from the first spawn (at x = 360) to the midpoint.
TicksToHalf == (SCREEN_WIDTH \div 2) \div (-MOVEMENT_SPEED)

\* C13: the first stream tick spawns one pair at x = 360 with a gap
\* parameter in [200, 600); 90 ticks later, and on no tick in between, its
\* left edge is at 180 and its halfway flag is true, and on that tick one
\* new pair is appended at x = 440.
C13_FirstAndMidpointSpawn ==
  \A g \in Tracked :
    LET l == games[g].obstacles
        n == games[g].ticks
    IN  /\ n = 0 => l = <<>>
        /\ (1 <= n /\ n <= TicksToHalf) =>
             /\ Len(l) = 1 /\ l[1].id = 1 /\ games[g].spawned = 1
             /\ LeftEdge(l[1])
                  = Px(SCREEN_WIDTH) + (n - 1) * Px(MOVEMENT_SPEED)
             /\ Px(MIN_RANGE_OF_PIPES) <= GapY(l[1])
             /\ GapY(l[1]) < Px(MAX_RANGE_OF_PIPES)
             /\ ~ l[1].halfway
        /\ n = TicksToHalf + 1 =>
             /\ Len(l) = 2 /\ l[1].id = 1 /\ l[2].id = 2
             /\ games[g].spawned = 2
             /\ LeftEdge(l[1]) = Px(180) /\ l[1].halfway
             /\ LeftEdge(l[2]) = Px(440) /\ l[2].age = 0

\* C13 witness: the running session is on the tick of its midpoint spawn.
C13_Witness ==
  \E g \in 1..Len(games) :
    /\ Running(g) /\ games[g].ticks = TicksToHalf + 1
    /\ Len(games[g].obstacles) = 2
    /\ games[g].obstacles[1].halfway

\* C14: a pair's halfway flag is true on the one tick that puts its left
\* edge at the midpoint, that tick appends exactly one pair for it, and no
\* pair passes the midpoint without its successor, also on the ticks that
\* remove an off-screen pair.
C14_OneSuccessorPerPair ==
  /\ [](\A g \in Tracked :
          LET l == games[g].obstacles
          IN  \A i \in 1..Len(l) :
                /\ l[i].halfway <=> 2 * LeftEdge(l[i]) = Px(SCREEN_WIDTH)
                /\ 2 * LeftEdge(l[i]) <= Px(SCREEN_WIDTH)
                     <=> l[i].id < games[g].spawned
                /\ i = Len(l) => l[i].id = games[g].spawned)
  /\ [][ \A g \in 1..Len(games) :
           ( /\ games'[g].tracked
             /\ games'[g].ticks = games[g].ticks + 1
             /\ Len(games[g].obstacles) > 0 )
           => LET l == games'[g].obstacles
              IN  games'[g].spawned - games[g].spawned
                    = Cardinality({ i \in 1..Len(l) : l[i].halfway }) ]_vars

\* C14 witness: the second pair is at the midpoint with its successor behind
\* it, after the tick that removed the first pair.
C14_Witness ==
  \E g \in 1..Len(games) :
    /\ Running(g) /\ Len(games[g].obstacles) = 2
    /\ games[g].obstacles[1].id = 2 /\ games[g].obstacles[1].halfway
    /\ games[g].obstacles[2].id = 3

\* C15 as stated: a pair is off-screen within 360 / 2 = 180 stream ticks of
\* its spawn, so no pair of that age is still on screen.
C15_OffScreenWithin180 ==
  \A g \in Tracked :
    \A i \in 1..Len(games[g].obstacles) :
      LET o == games[g].obstacles[i]
      IN  o.age >= SCREEN_WIDTH \div (-MOVEMENT_SPEED) => o.off_screen

\* Stream ticks a pair spawned at x needs to get its right edge to 0.
TicksToLeave(x) == (x + OBSTACLE_WIDTH) \div (-MOVEMENT_SPEED)

\* C15: a pair's off_screen flag becomes true exactly 215 stream ticks after
\* its spawn for the first pair (spawned at x = 360) and 255 ticks after it
\* for every later pair (spawned at x = 440), and not earlier.
C15_OffScreenBound ==
  \A g \in Tracked :
    \A i \in 1..Len(games[g].obstacles) :
      LET o == games[g].obstacles[i]
          bound == IF o.id = 1
                     THEN TicksToLeave(SCREEN_WIDTH)
                     ELSE TicksToLeave(SCREEN_WIDTH
                                         + DISTANCE_BETWEEN_OBSTACLES)
      IN  /\ ~ o.off_screen
          /\ o.age < bound
          /\ move_obstacle(o).off_screen <=> o.age = bound - 1

\* C15 witness: a later pair is one tick from leaving, 254 ticks old.
C15_Witness ==
  \E g \in 1..Len(games) :
    /\ Running(g)
    /\ \E i \in 1..Len(games[g].obstacles) :
         LET o == games[g].obstacles[i]
         IN  /\ o.id = 2
             /\ o.age = TicksToLeave(SCREEN_WIDTH
                                       + DISTANCE_BETWEEN_OBSTACLES) - 1
             /\ move_obstacle(o).off_screen

\* C16: the tick that sets a pair's off_screen flag also removes it, so no
\* tick ends with an off-screen pair in the stream and the first pair, the
\* one the collision and score checks read, is never off-screen.
C16_OffScreenRetired ==
  /\ [](\A g \in Tracked :
          \A i \in 1..Len(games[g].obstacles) :
            ~ games[g].obstacles[i].off_screen)
  /\ [][ \A g \in 1..Len(games) :
           ( /\ games'[g].tracked
             /\ games'[g].ticks = games[g].ticks + 1 )
           => \A i \in 1..Len(games[g].obstacles) :
                LET o == move_obstacle(games[g].obstacles[i])
                IN  o.off_screen =>
                      \A j \in 1..Len(games'[g].obstacles) :
                        games'[g].obstacles[j].id # o.id ]_vars

\* C16 witness: the first pair has left and was removed; the checks of this
\* tick read the second pair.
C16_Witness ==
  \E g \in 1..Len(games) :
    /\ Running(g)
    /\ games[g].ticks = 1 + TicksToLeave(SCREEN_WIDTH)
    /\ Len(games[g].obstacles) = 1
    /\ games[g].obstacles[1].id = 2

\* The barriers of a pair constructed with gap parameter y are the vertical
\* extents [y - 640, y - 150] and [y, y + 640], 150 apart.
Separated(o, y) ==
  LET top == o.top_obstacle_position
      bottom == o.bottom_obstacle_position
  IN  /\ At(top, TOP_Y) = Px(y - 640) /\ At(top, BOTTOM_Y) = Px(y - 150)
      /\ At(bottom, TOP_Y) = Px(y) /\ At(bottom, BOTTOM_Y) = Px(y + 640)
      /\ At(top, BOTTOM_Y) < At(bottom, TOP_Y)
      /\ At(bottom, TOP_Y) - At(top, BOTTOM_Y) = Px(150)

\* Obstacle.__init__ over the whole range of random.randrange(200, 600).
AllGapsSeparated ==
  \A y \in MIN_RANGE_OF_PIPES..(MAX_RANGE_OF_PIPES - 1) :
    /\ Separated(NewObstacle(SCREEN_WIDTH, y, 1), y)
    /\ Separated(
         move_obstacle(
           NewObstacle(SCREEN_WIDTH + DISTANCE_BETWEEN_OBSTACLES, y, 2)), y)

\* C17: for every gap parameter y with 200 <= y < 600 and on every tick of a
\* pair's life, the top barrier spans [y - 640, y - 150] and the bottom one
\* [y, y + 640]: they do not overlap and leave a gap of exactly 150.
C17_BarrierSeparation ==
  /\ AllGapsSeparated
  /\ \A g \in Tracked :
       \A i \in 1..Len(games[g].obstacles) :
         LET o == games[g].obstacles[i]
         IN  /\ GapY(o) \in { Px(y) : y \in GapChoices }
             /\ Separated(o, GapY(o) \div Scale)

\* C17 witness: two pairs with the two extreme gap parameters, both moved.
C17_Witness ==
  \E g \in 1..Len(games) :
    /\ Running(g) /\ Len(games[g].obstacles) = 2
    /\ GapY(games[g].obstacles[1]) = Px(MIN_RANGE_OF_PIPES)
    /\ GapY(games[g].obstacles[2]) = Px(MAX_RANGE_OF_PIPES - 1)
    /\ games[g].obstacles[2].age > 0

\* C18: on a waiting Game with an empty stream, the collision check and the
\* score check both complete without faulting and report no collision, no
\* score change and no termination.
C18_EmptyStreamHarmless ==
  \A g \in 1..Len(games) :
    ( /\ g = game_object /\ g > 1 /\ screen = "menu"
      /\ Len(games[g].obstacles) = 0 )
    => /\ ~ Truthy(manage_collisions(games[g]))
       /\ check_restart(App).game_object = game_object
       /\ ~ manage_score(games[g]).crashed
       /\ manage_score(games[g]).score = games[g].score

\* C19: the stream is in creation order with strictly increasing horizontal
\* position, so its first element is the leftmost pair, also after removals.
C19_StreamOrdered ==
  \A g \in Tracked :
    LET l == games[g].obstacles
    IN  \A i \in 1..Len(l) : \A j \in 1..Len(l) :
          i < j => /\ l[i].id < l[j].id
                   /\ LeftEdge(l[i]) < LeftEdge(l[j])

\* C19 witness: two pairs in the stream after the first pair was removed.
C19_Witness ==
  \E g \in 1..Len(games) :
    /\ Running(g) /\ Len(games[g].obstacles) = 2
    /\ games[g].obstacles[1].id = 2 /\ games[g].obstacles[1].age > 200
    /\ games[g].obstacles[2].id = 3

\* C20: the step that ends a session sets the menu's score to that session's
\* score at its terminal tick, and no other step changes the menu's score.
C20_FinalScoreReportedOnce ==
  [][ /\ game_object' # game_object =>
           /\ game_object' = game_object + 1
           /\ screen' = "menu"
           /\ score_label' = <<games'[game_object].score>>
      /\ game_object' = game_object => score_label' = score_label ]_vars

\* C20 witness: a session that scored has just ended, with a replaced
\* session's loop still running, and the menu shows its score.
C20_Witness ==
  \E g \in 1..Len(games) :
    /\ JustReplaced(g) /\ g > 1
    /\ games[g].score > 0
    /\ screen = "menu"
    /\ score_label = <<games[g].score>>

\* Events that are neither the control key nor the control button.
InvalidEvents ==
  { e \in Events : e.keysym # "space" /\ e.num # "1" }

\* C21: an event whose key is not space and whose button is not 1 leaves
\* the pending-boost stack, velocity and position of the player, the stream
\* and the score as they were.
C21_InvalidInputIgnored ==
  /\ InvalidEvents # {}
  /\ \A e \in InvalidEvents :
       LET after == [games EXCEPT
                       ![game_object].player = event_entered(@, e)]
       IN  \A g \in 1..Len(games) :
             /\ after[g].player = games[g].player
             /\ after[g].obstacles = games[g].obstacles
             /\ after[g].score = games[g].score
             /\ after[g].scoreboard = games[g].scoreboard

\* C21 witness: the input source can deliver an event to a running session
\* that has scored, is moving and has two pairs in its stream.
C21_Witness ==
  /\ Running(game_object) /\ PilotWindow
  /\ games[game_object].score > 0
  /\ games[game_object].player.vel > 0
  /\ Len(games[game_object].obstacles) = 2

\* Where a pair was spawned: the first at 360, every later one at 440.
SpawnX(o) ==
  IF o.id = 1 THEN SCREEN_WIDTH
  ELSE SCREEN_WIDTH + DISTANCE_BETWEEN_OBSTACLES

\* C22: every stream tick after the one that spawned it moves a pair left
\* by exactly 2, and the top and bottom barriers of a pair always have the
\* same left and right edges, 70 apart.
C22_LockstepMotion ==
  /\ [](\A g \in Tracked :
          \A i \in 1..Len(games[g].obstacles) :
            LET o == games[g].obstacles[i]
                top == o.top_obstacle_position
                bottom == o.bottom_obstacle_position
            IN  /\ At(top, LEFT_X) = At(bottom, LEFT_X)
                /\ At(top, RIGHT_X) = At(bottom, RIGHT_X)
                /\ At(bottom, RIGHT_X) = At(bottom, LEFT_X) + Px(70)
                /\ At(bottom, LEFT_X) = Px(SpawnX(o)) - o.age * Px(2))
  /\ [][ \A g \in 1..Len(games) :
           ( /\ games'[g].tracked
             /\ games'[g].ticks = games[g].ticks + 1 )
           => \A j \in 1..Len(games'[g].obstacles) :
                LET n == games'[g].obstacles[j]
                IN  \/ n.age = 0 /\ n.id = games'[g].spawned
                    \/ \E i \in 1..Len(games[g].obstacles) :
                         LET o == games[g].obstacles[i]
                         IN  /\ o.id = n.id /\ n.age = o.age + 1
                             /\ LeftEdge(n) = LeftEdge(o) - Px(2)
                             /\ At(n.top_obstacle_position, LEFT_X)
                                  = At(o.top_obstacle_position, LEFT_X)
                                      - Px(2) ]_vars

\* C22 witness: two pairs of different ages, both moved, in a running session.
C22_Witness ==
  \E g \in 1..Len(games) :
    /\ Running(g) /\ Len(games[g].obstacles) = 2
    /\ games[g].obstacles[1].age > games[g].obstacles[2].age
    /\ games[g].obstacles[2].age = 7

\* C23: manage_collisions changes neither the player, nor a pair, nor the
\* stream, nor the score, so the call in run_game and the call in
\* check_restart of the same tick of a running session return the same
\* verdict.
C23_CollisionsReadOnly ==
  \A g \in 1..Len(games) :
    (Running(g) /\ ~ games[g].crashed) =>
      \A m \in before_collisions(games[g]) :
        LET first == manage_collisions(m)
            m1 == after_manage_collisions(m)
            m2 == manage_score(m1)
            second == manage_collisions(m2)
        IN  /\ m1.player = m.player /\ m1.obstacles = m.obstacles
            /\ m1.scoreboard = m.scoreboard /\ m1.score = m.score
            /\ after_manage_collisions(m2) = m2
            /\ first = second

\* C23 witness: the next tick of a running session finds a collision and
\* also awards a point between the two calls.
C23_Witness ==
  \E g \in 1..Len(games) :
    /\ Running(g)
    /\ \E m \in before_collisions(games[g]) :
         /\ Truthy(manage_collisions(m))
         /\ manage_score(m).score > m.score

\* C24: after every call of _manage_pipes the obstacle list holds at least
\* one pair, so _manage_score never raises IndexError: no run_game call ends
\* in an exception, and a Game that has ticked has a pair in its stream.
C24_StreamNeverEmpty ==
  \A g \in 1..Len(games) :
    /\ ~ games[g].crashed
    /\ Ticked(g) => Len(games[g].obstacles) >= 1
    /\ (games[g].tracked /\ g \in loops) =>
         \A m \in before_collisions(games[g]) :
           /\ Len(m.obstacles) >= 1
           /\ ~ manage_score(m).crashed

\* C24 witness: the stream is down to one pair on the ticks after the first
\* pair was removed, before the second pair reaches the midpoint.
C24_Witness ==
  \E g \in 1..Len(games) :
    /\ Running(g) /\ g \in loops
    /\ games[g].ticks > 1 + TicksToLeave(SCREEN_WIDTH)
    /\ Len(games[g].obstacles) = 1
    /\ games[g].obstacles[1].id = 2

\* C25: a tick that detects a collision, and so ends the session, does not
\* increment the score.
C25_NoScoreOnTerminalTick ==
  [][ \A g \in 1..Len(games) :
        ( /\ g = game_object /\ game_object' > game_object
          /\ games'[g].ticks = games[g].ticks + 1 )
        => games'[g].score = games[g].score ]_vars

\* C26: at the end of every tick the player's rectangle, x from 40 to 80,
\* meets no barrier of a pair other than the first of the obstacle list.
C26_FirstPairSuffices ==
  \A g \in 1..Len(games) :
    Ticked(g) =>
      LET coords == get_coordinates(games[g].player)
          l == games[g].obstacles
      IN  /\ At(coords, LEFT_X) = Px(40) /\ At(coords, RIGHT_X) = Px(80)
          /\ \A i \in 2..Len(l) :
               /\ ~ Intersects(coords, l[i].top_obstacle_position)
               /\ ~ Intersects(coords, l[i].bottom_obstacle_position)
               /\ ~ Overlapping(l[i].top_obstacle_position, coords)
               /\ ~ Overlapping(l[i].bottom_obstacle_position, coords)

\* C26 witness: the player is level with a barrier of the second pair, which
\* is still to its right, and clear of the first pair.
C26_Witness ==
  \E g \in 1..Len(games) :
    /\ Running(g) /\ Len(games[g].obstacles) = 2
    /\ ~ HitsFirstPair(games[g])
    /\ At(get_coordinates(games[g].player), TOP_Y)
         < At(games[g].obstacles[2].top_obstacle_position, BOTTOM_Y)
    /\ LeftEdge(games[g].obstacles[2]) < Px(SCREEN_WIDTH)

\* C27: after every call of _manage_pipes the obstacle list holds one or two
\* pairs; when it holds two, the second pair's left edge is exactly 260 to
\* the right of the first pair's; and no tick spawns more than one pair.
C27_BoundedEvenStream ==
  /\ [](\A g \in 1..Len(games) :
          Ticked(g) =>
            LET l == games[g].obstacles
            IN  /\ Len(l) \in {1, 2}
                /\ Len(l) = 2 => LeftEdge(l[2]) = LeftEdge(l[1]) + Px(260))
  /\ [][ \A g \in 1..Len(games) :
           ( /\ games'[g].tracked
             /\ games'[g].ticks = games[g].ticks + 1 )
           => games'[g].spawned - games[g].spawned \in {0, 1} ]_vars

\* C27 witness: the second and the third pair, 260 apart.
C27_Witness ==
  \E g \in 1..Len(games) :
    /\ Running(g) /\ Len(games[g].obstacles) = 2
    /\ games[g].obstacles[1].id = 2 /\ games[g].obstacles[2].id = 3
    /\ games[g].obstacles[2].age > 0
    /\ LeftEdge(games[g].obstacles[2])
         = LeftEdge(games[g].obstacles[1]) + Px(260)

\* C28: when the first tick of a Game runs, its player has no pending boost,
\* whatever events were delivered since the Game was constructed.
C28_NoInputLeak ==
  [][ \A g \in 1..Len(games) :
        (games[g].ticks = 0 /\ games'[g].ticks = 1)
          => /\ Len(games[g].player.stack) = 0
             /\ games'[g].player.applied = <<"fall">> ]_vars

\* C29: while the menu is shown, a call of check_restart, also one made by
\* the loop of a replaced Game, neither replaces the waiting Game nor
\* changes the score the menu shows.
C29_WaitingGameKept ==
  /\ [](screen = "menu" =>
          LET a == check_restart(App)
          IN  /\ Len(games[game_object].obstacles) = 0
              /\ a.game_object = game_object
              /\ Len(a.games) = Len(games)
              /\ a.score_label = score_label
              /\ a.screen = "menu")
  /\ [][ (screen = "menu" /\ screen' = "menu")
           => /\ game_object' = game_object
              /\ Len(games') = Len(games)
              /\ score_label' = score_label ]_vars

\* C29 witness: the menu is shown after a session ended, the loop of the
\* replaced Game has called check_restart since, and the waiting Game holds
\* a boost request.
C29_Witness ==
  /\ screen = "menu" /\ game_object > 1
  /\ Len(games[game_object].player.stack) = 1
  /\ \E g \in loops : Replaced(g) /\ games[g].tracked /\ games[g].zticks > 0

\* Every tick of Game g so far was a fall tick: a boost tick leaves a
\* velocity below 0.5 * ticks for good.
OnlyFell(g) == Ticked(g) /\ 2 * games[g].player.vel = games[g].ticks * Px(1)

\* C30: once no further boost event is delivered and the ticks keep firing,
\* a running session is eventually ended; a session that got no input at
\* all is ended by the floor, while its only pair is still right of the
\* player.
C30_EndsWithoutInput ==
  /\ [](\A g \in 1..Len(games) :
          OnlyFell(g) =>
            LET bottom == At(get_coordinates(games[g].player), BOTTOM_Y)
            IN  /\ Len(games[g].obstacles) = 1
                /\ LeftEdge(games[g].obstacles[1]) > Px(80)
                /\ ~ HitsFirstPair(games[g])
                /\ Running(g) => bottom < Px(SCREEN_HEIGHT)
                /\ Replaced(g) => bottom >= Px(SCREEN_HEIGHT))
  /\ \A g \in 1..MaxGames : Running(g) ~> Replaced(g)

\* C30 witness: a session that got no input has just been ended at the floor.
C30_Witness ==
  \E g \in 1..Len(games) :
    /\ JustReplaced(g) /\ OnlyFell(g)
    /\ Boundary(games[g])
    /\ screen = "menu"

\* C32: at the end of every tick Game.score equals Scoreboard.score, so the
\* score check_restart reads when a session ends is the scoreboard's.
C32_ScoreMirror ==
  \A g \in 1..Len(games) :
    /\ games[g].score = games[g].scoreboard.score
    /\ JustReplaced(g) => score_label = <<games[g].scoreboard.score>>

\* C32 witness: a session ended after its scoreboard had counted two pairs.
C32_Witness ==
  \E g \in 1..Len(games) :
    /\ JustReplaced(g)
    /\ games[g].scoreboard.score = 2
    /\ games[g].score = 2
    /\ score_label = <<2>>

\* C31: in the early variants, once the bird's bottom edge has been at or
\* below 640 at the end of a tick, the movement stack is never empty again
\* and the bird never falls again: every later tick flaps when a boost is
\* queued and leaves position and velocity unchanged otherwise.
C31_FloorLatch ==
  /\ [](games[1].player.floored => Len(games[1].player.stack) > 0)
  /\ [][ ( /\ games[1].player.floored
           /\ games'[1].ticks = games[1].ticks + 1 )
         => LET b == games[1].player
                n == games'[1].player
            IN  /\ n.floored
                /\ IF \E i \in 1..Len(b.stack) : b.stack[i] = "True"
                     THEN /\ n.applied = <<"flap">>
                          /\ n.vel = (-8) * Px(1)
                          /\ n.y = b.y - 8 * Px(1)
                     ELSE /\ n.applied = <<>>
                          /\ n.vel = b.vel
                          /\ n.y = b.y ]_vars

\* C31 witness: after the latch a boost lifted the bird off the floor, and
\* the tick that has just run left it where it was.
C31_Witness ==
  /\ games[1].player.floored
  /\ At(Bird_get_coords(games[1].player), BOTTOM_Y) < Px(SCREEN_HEIGHT)
  /\ games[1].player.applied = <<>>
  /\ games[1].player.vel = (-8) * Px(1)

====
